---- MODULE Spec2Model ----
(***************************************************************************)
(* Model of src/nfde/docker_command.rs: the save / load / remove commands  *)
(* over the configured image folder, the resolution of an optional name    *)
(* to an archive path, and the piping of an archive into `docker load`.    *)
(*                                                                         *)
(* Strings are sequences of one-character strings, so that format!, join,  *)
(* ends_with and line splitting are computed and not assumed.  The file    *)
(* system is the set of regular files, each a sequence of path components, *)
(* below a fixed set of directories.                                       *)
(***************************************************************************)
EXTENDS Naturals, Integers, Sequences, FiniteSets, TLC

\* ------------------------------------------------------------------ bounds
MaxData == 2        \* longest archive, in bytes
PipeCap == 1        \* capacity of the pipe to the child's stdin, in bytes
MaxSelected == 1    \* most items the selection returns (multi(true))

Bytes == {0, 1}

\* --------------------------------------------------------------- strings
SLASH == "/"
NL == "\n"
TarSuffix == <<".", "t", "a", "r">>

\* str::ends_with
EndsWith(s, suf) ==
  /\ Len(s) >= Len(suf)
  /\ SubSeq(s, Len(s) - Len(suf) + 1, Len(s)) = suf

\* the suffix forgotten
FormatTar_NoSuffix(name) == name

\* format!("{}.tar", name)
FormatTar(name) == name \o TarSuffix

\* the pieces of s between occurrences of sep, empty pieces included
RECURSIVE Split(_, _)
Split(s, sep) ==
  IF \A i \in 1..Len(s) : s[i] # sep
  THEN <<s>>
  ELSE LET i == CHOOSE k \in 1..Len(s) :
                  s[k] = sep /\ \A j \in 1..(k - 1) : s[j] # sep
       IN <<SubSeq(s, 1, i - 1)>> \o Split(SubSeq(s, i + 1, Len(s)), sep)

\* Option<T>
None == [some |-> FALSE, v |-> <<>>]
Some(x) == [some |-> TRUE, v |-> x]

\* ----------------------------------------------------------------- paths
\* config().image_folder()
ImageFolder == <<"/", "d">>

IsAbsolute(p) == Len(p) > 0 /\ p[1] = SLASH

\* Path::join: an absolute argument replaces the base
Join(base, p) ==
  IF IsAbsolute(p) THEN p
  ELSE IF Len(base) > 0 /\ base[Len(base)] = SLASH THEN base \o p
  ELSE base \o <<SLASH>> \o p

\* the components of a path as written: empty and "." components vanish
Components(p) ==
  SelectSeq(Split(p, SLASH), LAMBDA c : c # <<>> /\ c # <<".">>)

DotDot == <<".", ".">>

\* the directories of the file system: the root and the image folder
Dirs == {<<>>, <<<<"d">>>>}

Parent(d) == IF d = <<>> THEN <<>> ELSE SubSeq(d, 1, Len(d) - 1)

\* what the operating system makes of a path: ".." steps up, and every
\* component but the last names an existing directory
RECURSIVE Walk(_, _)
Walk(comps, cur) ==
  IF comps = <<>> THEN [ok |-> TRUE, at |-> cur]
  ELSE IF Head(comps) = DotDot THEN Walk(Tail(comps), Parent(cur))
  ELSE IF Len(comps) = 1 THEN [ok |-> TRUE, at |-> Append(cur, Head(comps))]
  ELSE IF Append(cur, Head(comps)) \in Dirs
       THEN Walk(Tail(comps), Append(cur, Head(comps)))
       ELSE [ok |-> FALSE, at |-> <<>>]

Resolve(p) == Walk(Components(p), <<>>)

\* Path::exists
Exists(p, files) ==
  LET r == Resolve(p) IN r.ok /\ (r.at \in files \/ r.at \in Dirs)

IsFile(p, files) ==
  LET r == Resolve(p) IN r.ok /\ r.at \in files

\* a path that is a direct child of the image folder, as written
DirectlyInside(p) ==
  LET c == Components(p) IN
    /\ Len(c) = Len(Components(ImageFolder)) + 1
    /\ SubSeq(c, 1, Len(c) - 1) = Components(ImageFolder)
    /\ c[Len(c)] # DotDot
    /\ IsAbsolute(p)

\* ----------------------------------------------------------- file system
\* the names the command line supplies
Names == { <<"a">>, <<"b">>, <<".", ".", "/", "a">>, <<"s", "/", "a">> }

\* files that may be present when the program starts
InitFiles ==
  { << <<"d">>, <<"a", ".", "t", "a", "r">> >>,
    << <<"d">>, <<"b">> >>,
    << <<"d">>, <<"b", NL, "a", ".", "t", "a", "r">> >>,
    << <<"a", ".", "t", "a", "r">> >> }

Contents == UNION { [1..n -> Bytes] : n \in 0..MaxData }

\* std::fs::read_dir(image_folder) mapped to file_name()
ReadDir(files) ==
  { f[Len(f)] : f \in { g \in files : Parent(g) = Components(ImageFolder) } }

RECURSIVE SetToSeq(_)
SetToSeq(S) ==
  IF S = {} THEN <<>>
  ELSE LET x == CHOOSE y \in S : TRUE IN <<x>> \o SetToSeq(S \ {x})

\* Vec<String>::join("\n")
RECURSIVE JoinLines(_)
JoinLines(v) ==
  IF v = <<>> THEN <<>>
  ELSE IF Len(v) = 1 THEN v[1]
  ELSE v[1] \o <<NL>> \o JoinLines(Tail(v))

\* SkimItemReader::of_bufread: one item per line, no item for empty input
Lines(s) == IF s = <<>> THEN <<>> ELSE Split(s, NL)

Range(q) == { q[i] : i \in 1..Len(q) }

\* the items handed to the selection (lines 155-172)
Items(files) ==
  Lines(JoinLines(SetToSeq({ n \in ReadDir(files) : EndsWith(n, TarSuffix) })))

\* what Skim::run_with can return for the items: an abort, or an accept with
\* zero or more of the items selected
SkimOutputs(items) ==
  { [is_abort |-> TRUE, selected_items |-> <<>>] } \cup
  { [is_abort |-> FALSE, selected_items |-> q] :
      q \in { r \in UNION { [1..n -> Range(items)] : n \in 0..MaxSelected } :
                \A i, j \in 1..Len(r) : i # j => r[i] # r[j] } }

NoSkim == [is_abort |-> FALSE, selected_items |-> <<>>]

\* ------------------------------------------------------- results, effects
MsgMissingName == "Please provide a name for the image"
MsgAborted == "Image selection aborted"
MsgNotFound == "File does not exist: "
MsgNotTar == "File is not a tar file: "
MsgSave == "Could not save docker image"
MsgLoad == "Could not load docker image"
MsgRemove == "Could not remove docker image"
PanicUnwrap == "called Option::unwrap() on a None value"
PanicStatus == "called Result::unwrap() on an Err value"
PanicRead == "Failed to read image file"
PanicSpawn == "Failed to spawn docker command"
PanicWrite == "Failed to write image data to stdin"

Ok == [kind |-> "Ok", msg |-> "", path |-> <<>>]
Err(m, p) == [kind |-> "Err", msg |-> m, path |-> p]
Panic(m) == [kind |-> "Panic", msg |-> m, path |-> <<>>]
Running == [kind |-> "Running", msg |-> "", path |-> <<>>]

\* what one invocation has done to the outside world
NoFx == [listed |-> FALSE, widget |-> FALSE, items |-> <<>>,
         statted |-> {}, read |-> {}, spawned |-> {}]

\* ----------------------------------------------------------- the resolver
\* select_image without the is_abort test
select_image_IgnoresAbort(files, skim) ==
  IF Len(skim.selected_items) = 0
  THEN [res |-> Panic(PanicUnwrap), file |-> <<>>]
  ELSE [res |-> Ok, file |-> skim.selected_items[1]]

\* select_image (lines 148-190)
select_image(files, skim) ==
  IF skim.is_abort THEN [res |-> Err(MsgAborted, <<>>), file |-> <<>>]
  ELSE IF Len(skim.selected_items) = 0
       THEN [res |-> Panic(PanicUnwrap), file |-> <<>>]
       ELSE [res |-> Ok, file |-> skim.selected_items[1]]

\* the checks without the existence test
Validate_NoExistsCheck(image_path, files) ==
  IF ~EndsWith(image_path, TarSuffix) THEN Err(MsgNotTar, image_path)
  ELSE Ok

\* the checks of lines 135-145 on a candidate path
Validate(image_path, files) ==
  IF ~Exists(image_path, files) THEN Err(MsgNotFound, image_path)
  ELSE IF ~EndsWith(image_path, TarSuffix) THEN Err(MsgNotTar, image_path)
  ELSE Ok

\* determine_image_path (lines 121-146): the result, the path returned and
\* the effects of the resolution
determine_image_path(name, files, skim) ==
  IF name.some
  THEN LET p == Join(ImageFolder, FormatTar(name.v)) IN
         [res |-> Validate(p, files),
          path |-> IF Validate(p, files).kind = "Ok" THEN Some(p) ELSE None,
          fx |-> [NoFx EXCEPT !.statted = {p}]]
  ELSE LET sel == select_image(files, skim)
           fx0 == [NoFx EXCEPT !.listed = TRUE, !.widget = TRUE,
                               !.items = Items(files)]
       IN IF sel.res.kind # "Ok"
          THEN [res |-> sel.res, path |-> None, fx |-> fx0]
          ELSE LET p == Join(ImageFolder, sel.file) IN
                 [res |-> Validate(p, files),
                  path |-> IF Validate(p, files).kind = "Ok"
                           THEN Some(p) ELSE None,
                  fx |-> [fx0 EXCEPT !.statted = {p}]]

\* ------------------------------------------------------ external programs
\* `docker save -o path image`: creates the archive when it succeeds, and may
\* leave a file behind when it fails
DockerSave(files, p, ext) ==
  IF ext \in {"ok", "fail_wrote"} /\ Resolve(p).ok
  THEN files \cup {Resolve(p).at}
  ELSE files

\* docker save can only succeed or write where a file can be created
SaveFeasible(name, ext) ==
  (name.some /\ ext \in {"ok", "fail_wrote"}) =>
    LET r == Resolve(Join(ImageFolder, FormatTar(name.v))) IN
      r.ok /\ r.at \notin Dirs

\* `rm path`: unlinks a regular file when it succeeds
Rm(files, p, ext) ==
  IF ext = "ok" /\ IsFile(p, files) THEN files \ {Resolve(p).at} ELSE files

\* rm can only succeed on a regular file
RmFeasible(files, p, ext) == ext = "ok" => IsFile(p, files)

\* ------------------------------------------------------------- operations
\* save that takes an absent name for the empty name
save_DefaultName(name, files, ext) ==
  LET p == Join(ImageFolder, FormatTar(name.v)) IN
    IF ext = "nospawn"
    THEN [res |-> Panic(PanicStatus), path |-> Some(p), fx |-> NoFx,
          files |-> files]
    ELSE [res |-> IF ext = "ok" THEN Ok ELSE Err(MsgSave, <<>>),
          path |-> Some(p),
          fx |-> [NoFx EXCEPT !.spawned = {[prog |-> "docker save", arg |-> p]}],
          files |-> DockerSave(files, p, ext)]

\* save (lines 34-65)
save(name, files, ext) ==
  IF ~name.some
  THEN [res |-> Err(MsgMissingName, <<>>), path |-> None, fx |-> NoFx,
        files |-> files]
  ELSE LET p == Join(ImageFolder, FormatTar(name.v)) IN
    IF ext = "nospawn"
    THEN [res |-> Panic(PanicStatus), path |-> Some(p), fx |-> NoFx,
          files |-> files]
    ELSE [res |-> IF ext = "ok" THEN Ok ELSE Err(MsgSave, <<>>),
          path |-> Some(p),
          fx |-> [NoFx EXCEPT !.spawned = {[prog |-> "docker save", arg |-> p]}],
          files |-> DockerSave(files, p, ext)]

\* remove that reports success whatever rm's exit status
remove_IgnoresStatus(name, files, skim, ext) ==
  LET r == determine_image_path(name, files, skim) IN
    IF r.res.kind # "Ok"
    THEN [res |-> r.res, path |-> r.path, fx |-> r.fx, files |-> files]
    ELSE IF ext = "nospawn"
    THEN [res |-> Panic(PanicStatus), path |-> r.path, fx |-> r.fx,
          files |-> files]
    ELSE [res |-> Ok,
          path |-> r.path,
          fx |-> [r.fx EXCEPT !.spawned = {[prog |-> "rm", arg |-> r.path.v]}],
          files |-> Rm(files, r.path.v, ext)]

\* remove (lines 101-119)
remove(name, files, skim, ext) ==
  LET r == determine_image_path(name, files, skim) IN
    IF r.res.kind # "Ok"
    THEN [res |-> r.res, path |-> r.path, fx |-> r.fx, files |-> files]
    ELSE IF ext = "nospawn"
    THEN [res |-> Panic(PanicStatus), path |-> r.path, fx |-> r.fx,
          files |-> files]
    ELSE [res |-> IF ext = "ok" THEN Ok ELSE Err(MsgRemove, <<>>),
          path |-> r.path,
          fx |-> [r.fx EXCEPT !.spawned = {[prog |-> "rm", arg |-> r.path.v]}],
          files |-> Rm(files, r.path.v, ext)]

\* load up to the spawn of the child (lines 67-80)
load_start(name, files, skim, io) ==
  LET r == determine_image_path(name, files, skim) IN
    IF r.res.kind # "Ok"
    THEN [res |-> r.res, path |-> r.path, fx |-> r.fx]
    ELSE LET fx1 == [r.fx EXCEPT !.read = {r.path.v}] IN
      IF io = "noread"
      THEN [res |-> Panic(PanicRead), path |-> r.path, fx |-> fx1]
      ELSE IF io = "nospawn"
      THEN [res |-> Panic(PanicSpawn), path |-> r.path, fx |-> fx1]
      ELSE [res |-> Running, path |-> r.path,
            fx |-> [fx1 EXCEPT !.spawned = {[prog |-> "docker load",
                                             arg |-> <<>>]}]]

\* write in place of write_all: one call, whatever it transferred
write_all_SingleWrite(n, data) == n >= 1 \/ Len(data) = 0

\* write_all has returned Ok once the whole buffer is in the pipe
write_all_done(n, data) == n = Len(data)

\* ------------------------------------------------------------------ state
VARIABLES
  fs,           \* the regular files on disk
  removed,      \* files removed by a successful Remove and not saved since
  pc,           \* "idle", or where load stands: "write", "wait"
  op,           \* the request of the current or last invocation
  skim_output,  \* what the selection returned in it
  image_path,   \* the path it produced
  outcome,      \* its result
  fx,           \* its effects on the outside world
  archive,      \* the bytes of the archive file that load read
  image_data,   \* load's buffer
  written,      \* bytes of the buffer written to the pipe so far
  pipe,         \* bytes in the pipe, not yet read by the child
  consumed,     \* bytes the child has read from its stdin
  stdin_open,   \* load still holds the write end of the pipe
  child         \* "none", "running", "exit0", "exit1"

vars == <<fs, removed, pc, op, skim_output, image_path, outcome, fx, archive,
          image_data, written, pipe, consumed, stdin_open, child>>

NoLoad ==
  /\ archive' = <<>>
  /\ image_data' = <<>>
  /\ written' = 0
  /\ pipe' = <<>>
  /\ consumed' = <<>>
  /\ stdin_open' = FALSE
  /\ child' = "none"

Init ==
  /\ fs \in SUBSET InitFiles
  /\ removed = {}
  /\ pc = "idle"
  /\ op = [action |-> "None", name |-> None]
  /\ skim_output = NoSkim
  /\ image_path = None
  /\ outcome = Ok
  /\ fx = NoFx
  /\ archive = <<>>
  /\ image_data = <<>>
  /\ written = 0
  /\ pipe = <<>>
  /\ consumed = <<>>
  /\ stdin_open = FALSE
  /\ child = "none"

OptNames == {None} \cup { Some(n) : n \in Names }

\* the selection runs only when no name is given
SkimFor(name) == IF name.some THEN {NoSkim} ELSE SkimOutputs(Items(fs))

\* handle_docker_command with DockerAction::Save
Save(name, ext) ==
  /\ pc = "idle"
  /\ LET r == save(name, fs, ext) IN
       /\ op' = [action |-> "Save", name |-> name]
       /\ skim_output' = NoSkim
       /\ image_path' = r.path
       /\ outcome' = r.res
       /\ fx' = r.fx
       /\ fs' = r.files
       /\ removed' = IF r.path.some /\ Resolve(r.path.v).ok
                     THEN removed \ {Resolve(r.path.v).at}
                     ELSE removed
  /\ pc' = "idle"
  /\ NoLoad

\* handle_docker_command with DockerAction::Remove
Remove(name, skim, ext) ==
  /\ pc = "idle"
  /\ LET r == remove(name, fs, skim, ext) IN
       /\ op' = [action |-> "Remove", name |-> name]
       /\ skim_output' = skim
       /\ image_path' = r.path
       /\ outcome' = r.res
       /\ fx' = r.fx
       /\ fs' = r.files
       /\ removed' = IF r.res.kind = "Ok"
                     THEN removed \cup {Resolve(r.path.v).at}
                     ELSE removed
  /\ pc' = "idle"
  /\ NoLoad

\* handle_docker_command with DockerAction::Load, up to the spawn; the bytes
\* that fs::read returns are those of the archive on disk
LoadStart(name, skim, io) ==
  /\ pc = "idle"
  /\ LET r == load_start(name, fs, skim, io) IN
       /\ op' = [action |-> "Load", name |-> name]
       /\ skim_output' = skim
       /\ image_path' = r.path
       /\ outcome' = r.res
       /\ fx' = r.fx
       /\ IF r.res.kind = "Running"
          THEN /\ pc' = "write"
               /\ \E data \in Contents :
                    /\ archive' = data
                    /\ image_data' = data
               /\ written' = 0
               /\ pipe' = <<>>
               /\ consumed' = <<>>
               /\ stdin_open' = TRUE
               /\ child' = "running"
          ELSE /\ pc' = "idle"
               /\ NoLoad
  /\ UNCHANGED <<fs, removed>>

\* one write(2) inside write_all (line 84): some bytes enter the pipe
WriteChunk ==
  /\ pc = "write"
  /\ child = "running"
  /\ ~write_all_done(written, image_data)
  /\ \E n \in 1..(PipeCap - Len(pipe)) :
       /\ written + n <= Len(image_data)
       /\ pipe' = pipe \o SubSeq(image_data, written + 1, written + n)
       /\ written' = written + n
  /\ UNCHANGED <<fs, removed, pc, op, skim_output, image_path, outcome, fx,
                 archive, image_data, consumed, stdin_open, child>>

\* the failure of the write ignored: load goes on to wait
WriteFail_Swallowed ==
  /\ pc = "write"
  /\ child # "running"
  /\ ~write_all_done(written, image_data)
  /\ stdin_open' = FALSE
  /\ pc' = "wait"
  /\ UNCHANGED <<fs, removed, op, skim_output, image_path, outcome, fx,
                 archive, image_data, written, pipe, consumed, child>>

\* write(2) on a pipe whose reader is gone fails, and expect panics (line 85):
\* the process ends
WriteFail ==
  /\ pc = "write"
  /\ child # "running"
  /\ ~write_all_done(written, image_data)
  /\ outcome' = Panic(PanicWrite)
  /\ pc' = "idle"
  /\ NoLoad
  /\ UNCHANGED <<fs, removed, op, skim_output, image_path, fx>>

\* stdin kept alive across the wait
CloseStdin_KeepsStdin ==
  /\ pc = "write"
  /\ write_all_done(written, image_data)
  /\ pc' = "wait"
  /\ UNCHANGED <<fs, removed, op, skim_output, image_path, outcome, fx,
                 archive, image_data, written, pipe, consumed, stdin_open,
                 child>>

\* flush, and the end of the if-let block drops stdin (lines 86-87)
CloseStdin ==
  /\ pc = "write"
  /\ write_all_done(written, image_data)
  /\ stdin_open' = FALSE
  /\ pc' = "wait"
  /\ UNCHANGED <<fs, removed, op, skim_output, image_path, outcome, fx,
                 archive, image_data, written, pipe, consumed, child>>

\* child.wait() returns once the child has exited (lines 89-98), load returns
\* and the process ends
Wait ==
  /\ pc = "wait"
  /\ child \in {"exit0", "exit1"}
  /\ outcome' = IF child = "exit0" THEN Ok ELSE Err(MsgLoad, <<>>)
  /\ pc' = "idle"
  /\ NoLoad
  /\ UNCHANGED <<fs, removed, op, skim_output, image_path, fx>>

\* docker load reads some of its input
ChildRead ==
  /\ child = "running"
  /\ pipe # <<>>
  /\ \E n \in 1..Len(pipe) :
       /\ consumed' = consumed \o SubSeq(pipe, 1, n)
       /\ pipe' = SubSeq(pipe, n + 1, Len(pipe))
  /\ UNCHANGED <<fs, removed, pc, op, skim_output, image_path, outcome, fx,
                 archive, image_data, written, stdin_open, child>>

\* docker load sees end of input and exits
ChildExitEof ==
  /\ child = "running"
  /\ pipe = <<>>
  /\ ~stdin_open
  /\ \E c \in {"exit0", "exit1"} : child' = c
  /\ UNCHANGED <<fs, removed, pc, op, skim_output, image_path, outcome, fx,
                 archive, image_data, written, pipe, consumed, stdin_open>>

\* docker load gives up before the end of its input
ChildExitEarly ==
  /\ child = "running"
  /\ pipe # <<>> \/ stdin_open
  /\ \E c \in {"exit0", "exit1"} : child' = c
  /\ UNCHANGED <<fs, removed, pc, op, skim_output, image_path, outcome, fx,
                 archive, image_data, written, pipe, consumed, stdin_open>>

\* the outcomes of the external program that matter to an invocation
SaveExts(name) ==
  IF name.some
  THEN { e \in {"ok", "fail", "fail_wrote", "nospawn"} : SaveFeasible(name, e) }
  ELSE {"fail"}

RemoveExts(name, skim) ==
  LET r == determine_image_path(name, fs, skim) IN
    IF r.res.kind = "Ok"
    THEN { e \in {"ok", "fail", "nospawn"} : RmFeasible(fs, r.path.v, e) }
    ELSE {"fail"}

LoadIos(name, skim) ==
  IF determine_image_path(name, fs, skim).res.kind = "Ok"
  THEN {"ok", "noread", "nospawn"}
  ELSE {"ok"}

DoSave == \E name \in OptNames : \E ext \in SaveExts(name) : Save(name, ext)

DoRemove == \E name \in OptNames : \E skim \in SkimFor(name) :
              \E ext \in RemoveExts(name, skim) : Remove(name, skim, ext)

DoLoad == \E name \in OptNames : \E skim \in SkimFor(name) :
            \E io \in LoadIos(name, skim) : LoadStart(name, skim, io)

Next ==
  \/ DoSave
  \/ DoRemove
  \/ DoLoad
  \/ WriteChunk
  \/ WriteFail
  \/ CloseStdin
  \/ Wait
  \/ ChildRead
  \/ ChildExitEof
  \/ ChildExitEarly

Spec == Init /\ [][Next]_vars

\* load alone, with a scheduler that lets the orchestrator and a child that
\* reads to the end of its input take the steps they are able to take
NextLoad ==
  \/ DoLoad
  \/ WriteChunk
  \/ WriteFail
  \/ CloseStdin
  \/ Wait
  \/ ChildRead
  \/ ChildExitEof
  \/ ChildExitEarly

LoadSpec ==
  /\ Init
  /\ [][NextLoad]_vars
  /\ WF_vars(WriteChunk)
  /\ WF_vars(WriteFail)
  /\ WF_vars(CloseStdin)
  /\ WF_vars(Wait)
  /\ WF_vars(ChildRead)
  /\ WF_vars(ChildExitEof)

\* ------------------------------------------------------------- properties
Resolving(a) == a \in {"Load", "Remove"}

\* the path the resolver is to examine for a request, when there is one
Candidate(name, skim) ==
  IF name.some THEN Some(ImageFolder \o <<SLASH>> \o name.v \o TarSuffix)
  ELSE IF ~skim.is_abort /\ Len(skim.selected_items) > 0
       THEN Some(ImageFolder \o <<SLASH>> \o skim.selected_items[1])
       ELSE None

\* the three ways resolution fails: aborted selection, missing file, wrong
\* extension
ResolutionFails(name, skim, files) ==
  \/ ~name.some /\ skim.is_abort
  \/ /\ Candidate(name, skim).some
     /\ \/ ~Exists(Candidate(name, skim).v, files)
        \/ ~EndsWith(Candidate(name, skim).v, TarSuffix)

ResolutionError(o) ==
  o.kind = "Err" /\ o.msg \in {MsgAborted, MsgNotFound, MsgNotTar}

\* C1: a Load or Remove reads the archive, spawns docker load or runs rm only
\* on the path it resolved, which existed when it was resolved and ends in
\* ".tar"; when resolution fails the invocation ends with that error, nothing
\* read, nothing spawned and nothing deleted.
C1_ActionOnlyOnResolvedPath ==
  [][ (pc = "idle" /\ Resolving(op'.action)) =>
        /\ (fx'.read # {} \/ fx'.spawned # {}) =>
             /\ image_path'.some
             /\ Exists(image_path'.v, fs)
             /\ EndsWith(image_path'.v, TarSuffix)
             /\ fx'.read \subseteq {image_path'.v}
             /\ \A c \in fx'.spawned :
                  \/ c.prog = "rm" /\ c.arg = image_path'.v
                                   /\ op'.action = "Remove"
                  \/ c.prog = "docker load" /\ fx'.read = {image_path'.v}
                                            /\ op'.action = "Load"
        /\ ResolutionFails(op'.name, skim_output', fs) =>
             /\ ResolutionError(outcome')
             /\ pc' = "idle"
             /\ fx'.read = {}
             /\ fx'.spawned = {}
             /\ fs' = fs ]_vars

C1_Witness ==
  /\ op.action = "Load"
  /\ pc = "write"
  /\ fx.spawned # {}
  /\ fx.read = {image_path.v}

\* C2: when load starts waiting for the child, the child's input stream has
\* received exactly the bytes of the archive, in order, and has been closed.
C2_WholeArchiveBeforeWait ==
  pc = "wait" =>
    /\ consumed \o pipe = archive
    /\ Len(consumed) + Len(pipe) = Len(archive)
    /\ ~stdin_open

C2_Witness ==
  /\ pc = "wait"
  /\ Len(archive) > PipeCap
  /\ consumed = archive

\* C3: a load whose buffer is not wholly written never ends in success: the
\* only way it ends is the failure of the write.
C3_IncompleteWriteFails ==
  [][ (pc \in {"write", "wait"} /\ written < Len(image_data)) =>
        /\ outcome'.kind # "Ok"
        /\ pc' = "idle" => outcome' = Panic(PanicWrite) ]_vars

C3_Witness ==
  /\ op.action = "Load"
  /\ pc = "idle"
  /\ outcome = Panic(PanicWrite)

\* C4: Save without a name fails with the missing-name error, without the
\* selection, a directory listing, a stat or a subprocess.
C4_SaveNeedsName ==
  (op.action = "Save" /\ ~op.name.some) =>
    /\ outcome = Err(MsgMissingName, <<>>)
    /\ fx = NoFx
    /\ image_path = None
    /\ skim_output = NoSkim

C4_Witness ==
  /\ op.action = "Save"
  /\ ~op.name.some
  /\ outcome.kind = "Err"

\* C5: every archive path produced (Save's destination, the resolved path of
\* Load and Remove) is a direct child of the image folder and ends in ".tar".
C5_PathsDirectlyInFolder ==
  image_path.some =>
    /\ DirectlyInside(image_path.v)
    /\ EndsWith(image_path.v, TarSuffix)

\* C6: an aborted selection in a Load or Remove without a name ends the
\* invocation with the abort error, no path, no external process and the
\* file system as it was.
C6_AbortChangesNothing ==
  [][ (pc = "idle" /\ Resolving(op'.action) /\ ~op'.name.some
         /\ skim_output'.is_abort) =>
        /\ outcome' = Err(MsgAborted, <<>>)
        /\ image_path' = None
        /\ pc' = "idle"
        /\ fx'.spawned = {}
        /\ fx'.read = {}
        /\ fs' = fs ]_vars

C6_Witness ==
  /\ op.action = "Remove"
  /\ skim_output.is_abort
  /\ outcome.msg = MsgAborted
  /\ fs # {}

\* C7: once a Remove of x.tar has succeeded, and until a Save writes x.tar
\* again, a Load or Remove of x fails in resolution with the missing-file
\* error for ImageFolder/x.tar and starts no external action.
C7_RemovedStaysMissing ==
  [][ (pc = "idle" /\ Resolving(op'.action) /\ op'.name.some
         /\ Resolve(ImageFolder \o <<SLASH>> \o op'.name.v \o TarSuffix).ok
         /\ Resolve(ImageFolder \o <<SLASH>> \o op'.name.v \o TarSuffix).at
              \in removed) =>
        /\ outcome' =
             Err(MsgNotFound, ImageFolder \o <<SLASH>> \o op'.name.v \o TarSuffix)
        /\ fx'.spawned = {}
        /\ fx'.read = {}
        /\ fs' = fs ]_vars

C7_Witness ==
  /\ op.action = "Remove"
  /\ op.name.some
  /\ outcome.msg = MsgNotFound
  /\ Resolve(outcome.path).ok
  /\ Resolve(outcome.path).at \in removed

\* C8: a Load or Remove without a name over an image folder with no ".tar"
\* entry ends in the abort error or the missing-file error, whatever the
\* selection returns.
C8_EmptyFolderReportsFailure ==
  (pc = "idle" /\ Resolving(op.action) /\ ~op.name.some /\ fx.widget
     /\ fx.items = <<>>) =>
    /\ outcome.kind = "Err"
    /\ outcome.msg \in {MsgAborted, MsgNotFound}

\* a name that is the name of a file of the image folder without ".tar"
PointsToNonTar(n, files) ==
  /\ ~EndsWith(n, TarSuffix)
  /\ DirectlyInside(ImageFolder \o <<SLASH>> \o n)
  /\ IsFile(ImageFolder \o <<SLASH>> \o n, files)

\* C9 as claimed: a Load or Remove named after a file of the image folder
\* that lacks ".tar" fails with the not-a-tar-file error.
C9_NonTarNameIsInvalidExtension ==
  [][ (pc = "idle" /\ Resolving(op'.action) /\ op'.name.some
         /\ PointsToNonTar(op'.name.v, fs)) =>
        /\ outcome'.kind = "Err"
        /\ outcome'.msg = MsgNotTar ]_vars

\* C9 as amended: such a Load or Remove examines ImageFolder/<name>.tar: it
\* fails with the missing-file error for that path when it does not exist,
\* resolves to it when it does, and never fails with the not-a-tar-file error.
C9_NonTarNameIsNotFound ==
  [][ (pc = "idle" /\ Resolving(op'.action) /\ op'.name.some
         /\ PointsToNonTar(op'.name.v, fs)) =>
        LET p == ImageFolder \o <<SLASH>> \o op'.name.v \o TarSuffix IN
          /\ outcome'.msg # MsgNotTar
          /\ IF Exists(p, fs)
             THEN image_path' = Some(p) /\ ~ResolutionError(outcome')
             ELSE image_path' = None /\ outcome' = Err(MsgNotFound, p) ]_vars

C9_Witness ==
  /\ op.action = "Load"
  /\ op.name = Some(<<"b">>)
  /\ << <<"d">>, <<"b">> >> \in fs
  /\ outcome = Err(MsgNotFound, ImageFolder \o <<SLASH, "b">> \o TarSuffix)

\* the orchestrator cannot proceed until the child acts
OrchestratorBlocked ==
  \/ /\ pc = "write"
     /\ written < Len(image_data)
     /\ child = "running"
     /\ Len(pipe) >= PipeCap
  \/ pc = "wait" /\ child = "running"

\* the child cannot proceed until the orchestrator acts
ChildBlocked == child = "running" /\ pipe = <<>> /\ stdin_open

\* C10: load and the child never wait for each other, and every load that
\* spawned the child ends.
C10_LoadTerminates ==
  /\ [](~(OrchestratorBlocked /\ ChildBlocked))
  /\ (pc \in {"write", "wait"}) ~> (pc = "idle")

C10_Witness ==
  /\ pc = "wait"
  /\ child = "exit0"
  /\ Len(archive) > PipeCap
  /\ consumed = archive

====
